---- MODULE Spec2Model ----
(***************************************************************************)
(* Model of custom_components/dynamic_energy_cost/power_based_sensors.py:  *)
(* RealTimeCostSensor (the rate calculator) and the three                  *)
(* UtilityMeterSensor instances (the accumulators), hosted by the event    *)
(* loop, state machine, bus and timer service of Home Assistant; and of    *)
(* the user step of the configuration flow in config_flow.py, which        *)
(* creates the entry they are set up from.                                 *)
(*                                                                         *)
(* Representation.  Entity states are Python strings; they are modelled as *)
(* sequences of one-character strings so that float() and Decimal() are    *)
(* real parsers.  Money is counted in cents (1/100 of the currency), the   *)
(* clock in ticks of TickSeconds seconds since 00:00 of 1 January of       *)
(* EpochYear; a tick is a quarter-hour multiple, so that elapsed/3600 is   *)
(* a terminating decimal and the Decimal arithmetic of the accumulator is  *)
(* exact (no 28-digit context rounding before quantize).                   *)
(***************************************************************************)
EXTENDS Integers, Sequences, FiniteSets, TLC

\* ------------------------------------------------------------------ bounds

\* The clock advances at most MaxTicks ticks from the instant of setup.
MaxTicks == 2
\* At most MaxTimers timers of one instance are pending in the host at once
\* (caps direct calls of schedule_next_reset).
MaxTimers == 2

\* --------------------------------------------------------------- constants

\* Decimal(3600), seconds per hour.
SecondsPerHour == 3600
\* power / 1000: watts to kilowatts.
WattsPerKilowatt == 1000
\* round(..., 2) and quantize(Decimal("0.01")): two decimal places.
Places == 2
\* timedelta(days=32) of the monthly branch.
MonthStep == 32

TickSeconds == SecondsPerHour \div 2
TicksPerHour == SecondsPerHour \div TickSeconds
TicksPerDay == 24 * TicksPerHour
EpochYear == 2022 + 1

\* ----------------------------------------------------------------- strings

DigitChar == <<"0", "1", "2", "3", "4", "5", "6", "7", "8", "9">>
IsDigit(ch) == \E k \in 1..10 : DigitChar[k] = ch
DigitVal(ch) == (CHOOSE k \in 1..10 : DigitChar[k] = ch) - 1

\* The None object (no state object / no entity), distinct from every string.
NONE == <<"<None>">>
EMPTY == <<>>
UNKNOWN == <<"u", "n", "k", "n", "o", "w", "n">>
UNAVAILABLE == <<"u", "n", "a", "v", "a", "i", "l", "a", "b", "l", "e">>
ABC == <<"a", "b", "c">>

RECURSIVE Pow10(_)
Pow10(n) == IF n = 0 THEN 1 ELSE 10 * Pow10(n - 1)

RECURSIVE DigitsValue(_)
\* Value of a sequence of digit characters read as a decimal numeral.
DigitsValue(s) ==
    IF s = <<>> THEN 0
    ELSE 10 * DigitsValue(SubSeq(s, 1, Len(s) - 1)) + DigitVal(s[Len(s)])

\* The numeric literal grammar shared by float(str) and Decimal(str), as far
\* as the modelled inputs go: [sign] digits [ "." digits ] | [sign] "." digits.
\* ok = FALSE is the parse failure (ValueError resp. InvalidOperation);
\* otherwise the value is num / 10^exp.
ParseNumber(s) ==
    LET signed == Len(s) > 0 /\ s[1] \in {"-", "+"}
        body == IF signed THEN SubSeq(s, 2, Len(s)) ELSE s
        dots == {k \in 1..Len(body) : body[k] = "."}
        dot == IF dots = {} THEN Len(body) + 1 ELSE CHOOSE k \in dots : TRUE
        ip == SubSeq(body, 1, dot - 1)
        fp == SubSeq(body, dot + 1, Len(body))
        wellformed ==
            /\ s # NONE
            /\ Cardinality(dots) <= 1
            /\ \A k \in 1..Len(ip) : IsDigit(ip[k])
            /\ \A k \in 1..Len(fp) : IsDigit(fp[k])
            /\ Len(ip) + Len(fp) > 0
    IN  IF ~wellformed THEN [ok |-> FALSE, num |-> 0, exp |-> 0]
        ELSE [ok |-> TRUE,
              num |-> (IF signed /\ s[1] = "-" THEN -1 ELSE 1)
                      * (DigitsValue(ip) * Pow10(Len(fp)) + DigitsValue(fp)),
              exp |-> Len(fp)]

\* Nearest integer to n / d (d > 0), ties to the even neighbour: Python's
\* round() on an exactly representable float and Decimal's ROUND_HALF_EVEN.
RoundHalfEven(n, d) ==
    LET q == n \div d
        r == n % d
    IN  IF 2 * r < d THEN q
        ELSE IF 2 * r > d THEN q + 1
        ELSE IF q % 2 = 0 THEN q ELSE q + 1

\* The Decimal of a parsed literal p as a number of cents; defined for
\* literals of at most two fractional digits, which is all the modelled
\* states have.
DecimalCents(p) == p.num * Pow10(Places - p.exp)

RECURSIVE NatStr(_)
NatStr(n) ==
    IF n < 10 THEN <<DigitChar[n + 1]>>
    ELSE NatStr(n \div 10) \o <<DigitChar[(n % 10) + 1]>>

\* str(float(Decimal)) of an amount of c cents: the shortest repr of the
\* float, at least one fractional digit ("2.0", "0.25", "-0.8").
FloatStr(c) ==
    LET a == IF c < 0 THEN -c ELSE c
        f == a % 100
    IN  (IF c < 0 THEN <<"-">> ELSE <<>>)
        \o NatStr(a \div 100) \o <<".">>
        \o (IF f % 10 = 0 THEN <<DigitChar[(f \div 10) + 1]>>
            ELSE <<DigitChar[(f \div 10) + 1], DigitChar[(f % 10) + 1]>>)

\* ---------------------------------------------------------------- calendar

IsLeap(y) == (y % 4 = 0 /\ y % 100 # 0) \/ y % 400 = 0
DaysInMonth(y, m) ==
    IF m = 2 THEN (IF IsLeap(y) THEN 29 ELSE 28)
    ELSE IF m \in {4, 6, 9, 11} THEN 30 ELSE 31
DaysInYear(y) == IF IsLeap(y) THEN 366 ELSE 365

RECURSIVE DaysBeforeYear(_)
DaysBeforeYear(y) ==
    IF y <= EpochYear THEN 0 ELSE DaysBeforeYear(y - 1) + DaysInYear(y - 1)

RECURSIVE DaysBeforeMonth(_, _)
DaysBeforeMonth(y, m) ==
    IF m = 1 THEN 0 ELSE DaysBeforeMonth(y, m - 1) + DaysInMonth(y, m - 1)

\* A datetime value from its fields (day ordinal * TicksPerDay + time of day).
DateTime(y, m, d, tick) ==
    (DaysBeforeYear(y) + DaysBeforeMonth(y, m) + (d - 1)) * TicksPerDay + tick

\* The fields of a datetime value.
YearOf(t) ==
    CHOOSE y \in EpochYear..(EpochYear + 3) :
        /\ DaysBeforeYear(y) * TicksPerDay <= t
        /\ t < (DaysBeforeYear(y) + DaysInYear(y)) * TicksPerDay
MonthOf(t) ==
    LET y == YearOf(t)
    IN  CHOOSE m \in 1..12 :
            /\ DateTime(y, m, 1, 0) <= t
            /\ t < DateTime(y, m, DaysInMonth(y, m), 0) + TicksPerDay
DayOf(t) == ((t - DateTime(YearOf(t), MonthOf(t), 1, 0)) \div TicksPerDay) + 1
TickOf(t) == t % TicksPerDay

\* dt + timedelta(days=n)
AddDays(t, n) == t + n * TicksPerDay
\* dt.replace(hour=0, minute=0, second=0, microsecond=0)
Midnight(t) == t - TickOf(t)
\* dt.replace(day=1)
ReplaceDay1(t) == DateTime(YearOf(t), MonthOf(t), 1, TickOf(t))

\* ------------------------------------------------------------------- state

\* The three UtilityMeterSensor instances of async_setup_entry.
Intervals == {"daily", "monthly", "yearly"}
\* The two source entities the rate calculator reads.
PRICE == "electricity_price_sensor"
POWER == "power_sensor"
Sources == {PRICE, POWER}
\* The rate calculator's own entity.
RATE == "real_time_cost"

\* States the price and power entities report (NONE: the entity is not in
\* the state machine, hass.states.get returns None).
PriceStates == {<<"2", ".", "0">>, <<"-", "0", ".", "0", "5">>,
                NONE, EMPTY, ABC}
PowerStates == {<<"1", "0", "0", "0">>, UNKNOWN, UNAVAILABLE}
SourceStates(e) == IF e = PRICE THEN PriceStates ELSE PowerStates

\* States of the rate entity the host itself reports to its listeners
\* (entity removed, unavailable, unknown, or set to a non-number).
HostRateStates == {NONE, UNKNOWN, UNAVAILABLE, ABC}

\* What async_get_last_state can return: nothing, or a state object whose
\* state is one of these strings.
RestoreStates == {NONE, UNKNOWN, UNAVAILABLE, ABC, <<"1", "2", ".", "3", "4">>}

\* Price and power readings for the rate calculation taken alone: both
\* signs, zero, and products that fall exactly halfway between two cents
\* (0.125 * 1000 / 1000, 0.25 * 1500 / 1000, 0.25 * 2500 / 1000).  On each
\* pair the float product and the decimal product round to the same cent.
RatePriceStates ==
    {<<"2", ".", "0">>, <<"-", "0", ".", "0", "5">>,
     <<"0", ".", "1", "2", "5">>, <<"0", ".", "2", "5">>, <<"0", ".", "3">>,
     EMPTY}
RatePowerStates ==
    {<<"1", "0", "0", "0">>, <<"1", "5", "0", "0">>, <<"2", "5", "0", "0">>,
     <<"0">>, <<"-", "1", "0", "0", "0">>, UNAVAILABLE}
RateSourceStates(e) == IF e = PRICE THEN RatePriceStates ELSE RatePowerStates

\* Readings that give non-negative rates only: 2.00, 3.00, 0.25 and 0.38
\* per hour.
NonNegPriceStates == {<<"2", ".", "0">>, <<"0", ".", "2", "5">>, EMPTY}
NonNegPowerStates == {<<"1", "0", "0", "0">>, <<"1", "5", "0", "0">>,
                      UNAVAILABLE}
NonNegSourceStates(e) ==
    IF e = PRICE THEN NonNegPriceStates ELSE NonNegPowerStates

\* The instant at which the integration is set up: 23:30 on a year end,
\* half an hour before the boundary of all three intervals.
StartTimes == {DateTime(EpochYear, 12, 31, TicksPerDay - 1)}

\* Set-up instants half an hour before a boundary of the day only (28
\* February of a leap year), of the day and the month (31 January), and of
\* all three intervals.
NestedStartTimes ==
    {DateTime(EpochYear + 1, 2, 28, TicksPerDay - 1),
     DateTime(EpochYear, 1, 31, TicksPerDay - 1)} \cup StartTimes

\* Instants at which calculate_next_reset_time is exercised on its own:
\* exactly on a year, month and day boundary, half an hour before one, the
\* ends of 28-, 29-, 30- and 31-day months, December, and mid-month.
CalendarTimes ==
    {DateTime(EpochYear, 1, 1, 0),
     DateTime(EpochYear, 1, 31, TicksPerDay - 1),
     DateTime(EpochYear, 2, 28, TicksPerDay - 1),
     DateTime(EpochYear, 3, 1, 0),
     DateTime(EpochYear, 4, 30, TicksPerDay \div 2),
     DateTime(EpochYear, 6, 15, 0),
     DateTime(EpochYear, 6, 15, 1),
     DateTime(EpochYear, 12, 1, 0),
     DateTime(EpochYear, 12, 31, TicksPerDay - 1),
     DateTime(EpochYear + 1, 1, 31, 0),
     DateTime(EpochYear + 1, 2, 28, TicksPerDay - 1),
     DateTime(EpochYear + 1, 2, 29, 0),
     DateTime(EpochYear + 1, 2, 29, TicksPerDay - 1),
     DateTime(EpochYear + 1, 12, 31, TicksPerDay - 1),
     DateTime(EpochYear + 2, 1, 30, TicksPerDay \div 2)}

\* What hass.async_remove_job(handle) can do: the host object has no such
\* attribute (AttributeError), or the call returns; the handle, which is the
\* cancel function of the timer, is never called either way.
RemoveJobOutcomes == {"AttributeError", "returns"}

\* ------------------------------------------------------ configuration flow

\* Characters of an entity id besides the digits.
IdLetters ==
    {"a", "b", "c", "d", "e", "f", "g", "h", "i", "j", "k", "l", "m", "n",
     "o", "p", "q", "r", "s", "t", "u", "v", "w", "x", "y", "z", "_"}

\* cv.entity_id(value) accepts value (otherwise it raises vol.Invalid): a
\* domain and an object id of letters, digits and underscores, joined by
\* one dot.
ValidEntityId(s) ==
    /\ s # NONE
    /\ \E k \in 2..(Len(s) - 1) :
          /\ s[k] = "."
          /\ \A n \in (1..Len(s)) \ {k} : s[n] \in IdLetters \/ IsDigit(s[n])

\* bool(x) of a value from user_input.get: None and "" are false.
Truthy(s) == s # NONE /\ s # EMPTY

\* What the form can submit.  NONE in an optional field: the key is absent
\* and user_input.get returns None.
PriceIds == {<<"s", ".", "p">>, <<"s", ".", "p", "2">>, <<"s", "p">>,
             <<".", "p">>}
PowerIds == {NONE, EMPTY, <<"s", ".", "w">>, <<"s", "w">>,
             <<"s", ".", "w", ".">>}
EnergyIds == {NONE, EMPTY, <<"s", ".", "e">>, <<"s", "e">>,
              <<"s", ".", ".", "e">>}
UserInputs ==
    [electricity_price_sensor : PriceIds, power_sensor : PowerIds,
     energy_sensor : EnergyIds]

\* The name `exceptions` is not bound in config_flow.py (it imports
\* config_entries and data_entry_flow from homeassistant), so evaluating
\* `raise exceptions.Invalid(...)` raises NameError, which the handler for
\* vol.Invalid does not catch.
ExceptionsEscapesAs == "NameError"

\* async_step_user(user_input) for a submitted form: the flow result
\* (type "create_entry" with its data, or type "form" with errors), or the
\* exception that escapes (type "raised").
AsyncStepUser(user_input) ==
    LET price == user_input.electricity_price_sensor
        power == user_input.power_sensor
        energy == user_input.energy_sensor
        form == [type |-> "form", errors |-> "none", exception |-> "none",
                 data |-> NONE]
    IN  IF \/ ~ValidEntityId(price)
           \/ Truthy(power) /\ ~ValidEntityId(power)
           \/ Truthy(energy) /\ ~ValidEntityId(energy)
        THEN [form EXCEPT !.errors = "invalid_entity"]
        ELSE IF \/ ~Truthy(power) /\ ~Truthy(energy)
                \/ Truthy(power) /\ Truthy(energy)
        THEN [form EXCEPT !.type = "raised", !.exception = ExceptionsEscapesAs]
        ELSE [form EXCEPT !.type = "create_entry", !.data = user_input]

\* async_setup_entry(hass, config_entry, ...) up to the construction of the
\* rate calculator, whose __init__ calls power_sensor_id.split("."): with
\* power_sensor None that is an AttributeError.
SetupEntryOutcome(data) ==
    IF data.power_sensor = NONE THEN "AttributeError" ELSE "constructed"

\* The flow before the form is submitted, and the flow of an entry for a
\* power sensor that has been set up.
FlowStart ==
    [user_input |-> NONE,
     result |-> [type |-> "none", errors |-> "none", exception |-> "none",
                 data |-> NONE],
     core |-> "none"]
PowerInput ==
    [electricity_price_sensor |-> <<"s", ".", "p">>,
     power_sensor |-> <<"s", ".", "w">>, energy_sensor |-> NONE]
FlowSetUp ==
    [user_input |-> PowerInput, result |-> AsyncStepUser(PowerInput),
     core |-> SetupEntryOutcome(PowerInput)]

VARIABLES
    flow,           \* config flow: last user_input, its result, the core set up
    clock,          \* homeassistant.util.dt.now()
    states,         \* hass.states of the two source entities
    rt_subscribed,  \* RealTimeCostSensor listens to its sources
    rt_state,       \* RealTimeCostSensor._state, in cents per hour
    phase,          \* per interval: "none", "constructed", "added" or "failed"
    value,          \* UtilityMeterSensor._state, in cents
    last_update,    \* UtilityMeterSensor._last_update
    has_reset_timer,\* hasattr(self, "_reset_timer")
    timers,         \* per interval: fire times of the timers pending in the host
    subscribed,     \* per interval: listens to the rate entity
    raised,         \* <<entity, exception>> pairs that escaped from the last step
    written         \* entities that called async_write_ha_state in the last step

vars == <<flow, clock, states, rt_subscribed, rt_state, phase, value, last_update,
          has_reset_timer, timers, subscribed, raised, written>>

\* The state after async_setup_entry has constructed the four entities, at
\* one of the instants starts.
InitAt(starts) ==
    /\ flow = FlowSetUp
    /\ clock \in starts
    /\ states = [e \in Sources |-> NONE]
    /\ rt_subscribed = FALSE
    /\ rt_state = 0
    /\ phase = [i \in Intervals |-> "constructed"]
    /\ value = [i \in Intervals |-> 0]
    /\ last_update = [i \in Intervals |-> clock]
    /\ has_reset_timer = [i \in Intervals |-> FALSE]
    /\ timers = [i \in Intervals |-> <<>>]
    /\ subscribed = [i \in Intervals |-> FALSE]
    /\ raised = {}
    /\ written = {}

Init == InitAt(StartTimes)

\* --------------------------------------------------------- rate calculator

\* Mutant of CalculatedCost: the product is cut down to whole cents
\* (math.floor) instead of rounded.
CalculatedCostFloored(p, w) ==
    (p.num * w.num * Pow10(Places))
        \div (Pow10(p.exp + w.exp) * WattsPerKilowatt)

\* round(electricity_price * (power_usage / 1000), 2) in cents, for parsed
\* price p and power w (values num / 10^exp).  The modelled inputs never
\* give a decimal tie that the binary float would resolve differently.
CalculatedCost(p, w) ==
    RoundHalfEven(p.num * w.num * Pow10(Places),
                  Pow10(p.exp + w.exp) * WattsPerKilowatt)

\* RealTimeCostSensor.state: float(self._state), as the host publishes it.
RateState(cents) == FloatStr(cents)

\* Every rate the modelled sources can produce, and every string the model
\* parses; Parsed is ParseNumber tabulated over them, the table split by
\* the length of the string.
Rates ==
    {0} \cup {CalculatedCost(ParseNumber(p), ParseNumber(w)) :
                p \in {x \in PriceStates \cup NonNegPriceStates :
                          ParseNumber(x).ok},
                w \in {x \in PowerStates \cup NonNegPowerStates :
                          ParseNumber(x).ok}}
Strings ==
    PriceStates \cup PowerStates \cup HostRateStates \cup RestoreStates
    \cup {RateState(c) : c \in Rates}
    \cup RatePriceStates \cup RatePowerStates
    \cup NonNegPriceStates \cup NonNegPowerStates
ParsedOfLength ==
    [n \in {Len(s) : s \in Strings} |->
        [s \in {x \in Strings : Len(x) = n} |-> ParseNumber(s)]]
Parsed(s) == ParsedOfLength[Len(s)][s]

\* Mutant of HandleStateChange: no change-detection gate, every valid sample
\* is written.
HandleStateChangeUngated(new_state, st, old) ==
    LET quiet == [raised |-> "none", state |-> old, wrote |-> FALSE]
        price == st[PRICE]
        power == st[POWER]
    IN  IF new_state = NONE \/ price = NONE \/ power = NONE
        THEN [quiet EXCEPT !.raised = "AttributeError"]
        ELSE IF \/ new_state \in {UNKNOWN, UNAVAILABLE}
                \/ price \in {EMPTY, UNKNOWN, UNAVAILABLE}
                \/ power \in {EMPTY, UNKNOWN, UNAVAILABLE}
                \/ ~Parsed(price).ok
                \/ ~Parsed(power).ok
        THEN quiet
        ELSE [raised |-> "none",
              state |-> CalculatedCost(Parsed(price), Parsed(power)),
              wrote |-> TRUE]

\* handle_state_change(event) with event.data["new_state"] = new_state, read
\* against the state machine st: the exception that escapes ("none" if
\* none), the new self._state and whether async_write_ha_state ran.
HandleStateChange(new_state, st, old) ==
    LET quiet == [raised |-> "none", state |-> old, wrote |-> FALSE]
        price == st[PRICE]
        power == st[POWER]
    IN  IF new_state = NONE
        THEN [quiet EXCEPT !.raised = "AttributeError"]
        ELSE IF new_state \in {UNKNOWN, UNAVAILABLE} THEN quiet
        ELSE IF price = NONE \/ power = NONE
        THEN [quiet EXCEPT !.raised = "AttributeError"]
        ELSE IF \/ price = EMPTY
                \/ power = EMPTY
                \/ price \in {UNKNOWN, UNAVAILABLE}
                \/ power \in {UNKNOWN, UNAVAILABLE}
        THEN quiet
        ELSE LET p == Parsed(price)
                 w == Parsed(power)
                 cost == CalculatedCost(p, w)
             IN  IF ~p.ok \/ ~w.ok THEN quiet  \* ValueError, caught and logged
                 ELSE IF cost # old
                 THEN [raised |-> "none", state |-> cost, wrote |-> TRUE]
                 ELSE quiet

\* ------------------------------------------------------------- accumulator

\* Mutant of CostOver: the product is rounded down (ROUND_FLOOR) instead of
\* half-even.
CostOverFloor(cost, dt) == (cost * dt) \div TicksPerHour

\* (current_cost * hours_passed).quantize(Decimal("0.01")) in cents, for a
\* rate of cost cents per hour over an elapsed time of dt ticks.
CostOver(cost, dt) == RoundHalfEven(cost * dt, TicksPerHour)

\* The exception raised when Decimal(str) fails inside a try whose except
\* clause names InvalidOperation: the module imports only Decimal, so
\* evaluating the clause raises NameError, which escapes.
InvalidOperationEscapesAs == "NameError"

\* Mutant of HandleRealTimeCostUpdate: the cost of the window is subtracted
\* from the total instead of added.
HandleRealTimeCostUpdateSubtracting(new_state, v, lu, now) ==
    LET quiet == [raised |-> "none", value |-> v, last_update |-> lu,
                  wrote |-> FALSE]
        p == Parsed(new_state)
    IN  IF new_state = NONE \/ new_state \in {UNKNOWN, UNAVAILABLE} THEN quiet
        ELSE IF ~p.ok
        THEN [quiet EXCEPT !.raised = "NameError"]
        ELSE [raised |-> "none",
              value |-> v - RoundHalfEven(DecimalCents(p) * (now - lu),
                                          TicksPerHour),
              last_update |-> now,
              wrote |-> TRUE]

\* Mutant of HandleRealTimeCostUpdate: the update is stamped with the start
\* of the current day instead of the current time.
HandleRealTimeCostUpdateDayStamped(new_state, v, lu, now) ==
    LET quiet == [raised |-> "none", value |-> v, last_update |-> lu,
                  wrote |-> FALSE]
        p == Parsed(new_state)
    IN  IF new_state = NONE \/ new_state \in {UNKNOWN, UNAVAILABLE} THEN quiet
        ELSE IF ~p.ok
        THEN [quiet EXCEPT !.raised = InvalidOperationEscapesAs]
        ELSE [raised |-> "none",
              value |-> v + CostOver(DecimalCents(p), now - lu),
              last_update |-> Midnight(now),
              wrote |-> TRUE]

\* _handle_real_time_cost_update(event) of one instance with state v and
\* last update lu, at time now (the two now() reads of the callback fall in
\* the same tick).
HandleRealTimeCostUpdate(new_state, v, lu, now) ==
    LET quiet == [raised |-> "none", value |-> v, last_update |-> lu,
                  wrote |-> FALSE]
        p == Parsed(new_state)
    IN  IF new_state = NONE \/ new_state \in {UNKNOWN, UNAVAILABLE} THEN quiet
        ELSE IF ~p.ok
        THEN [quiet EXCEPT !.raised = InvalidOperationEscapesAs]
        ELSE [raised |-> "none",
              value |-> v + CostOver(DecimalCents(p), now - lu),
              last_update |-> now,
              wrote |-> TRUE]

\* Mutant of CalculateNextResetTime: the month is taken as a fixed period
\* of 30 days.
CalculateNextResetTimeFixedMonth(i, now) ==
    IF i = "daily" THEN Midnight(AddDays(now, 1))
    ELSE IF i = "monthly" THEN Midnight(AddDays(now, 30))
    ELSE DateTime(YearOf(now) + 1, 1, 1, 0)

\* Mutant of CalculateNextResetTime: the daily and the monthly branch are
\* exchanged.
CalculateNextResetTimeSwapped(i, now) ==
    IF i = "monthly" THEN Midnight(AddDays(now, 1))
    ELSE IF i = "daily"
    THEN Midnight(ReplaceDay1(AddDays(ReplaceDay1(now), MonthStep)))
    ELSE DateTime(YearOf(now) + 1, 1, 1, 0)

\* calculate_next_reset_time() of the instance of interval i at time now.
CalculateNextResetTime(i, now) ==
    IF i = "daily" THEN Midnight(AddDays(now, 1))
    ELSE IF i = "monthly"
    THEN Midnight(ReplaceDay1(AddDays(ReplaceDay1(now), MonthStep)))
    ELSE DateTime(YearOf(now) + 1, 1, 1, 0)

\* schedule_next_reset() of an instance whose pending timers are pending:
\* with a _reset_timer attribute the handle goes to hass.async_remove_job,
\* whose outcome is outcome; then the new timer is armed.
ScheduleNextReset(i, pending, has, outcome, now) ==
    IF has /\ outcome = "AttributeError"
    THEN [raised |-> "AttributeError", timers |-> pending, has |-> has]
    ELSE [raised |-> "none",
          timers |-> Append(pending, CalculateNextResetTime(i, now)),
          has |-> TRUE]

\* The host's bus hands a state change of the rate entity to every
\* subscribed instance, each callback in its own error trap.
Delivered(i, new_state) ==
    IF subscribed[i]
    THEN HandleRealTimeCostUpdate(new_state, value[i], last_update[i], clock)
    ELSE [raised |-> "none", value |-> value[i],
          last_update |-> last_update[i], wrote |-> FALSE]

Deliver(new_state, before_raised, before_written) ==
    LET d == [i \in Intervals |-> Delivered(i, new_state)]
    IN  /\ value' = [i \in Intervals |-> d[i].value]
        /\ last_update' = [i \in Intervals |-> d[i].last_update]
        /\ raised' = before_raised \cup
               {<<i, d[i].raised>> : i \in {j \in Intervals : d[j].raised # "none"}}
        /\ written' = before_written \cup {i \in Intervals : d[i].wrote}

\* ----------------------------------------------------------------- actions

\* RealTimeCostSensor.async_added_to_hass: subscribe to both sources.
RtAddedToHass ==
    /\ ~rt_subscribed
    /\ rt_subscribed' = TRUE
    /\ raised' = {}
    /\ written' = {}
    /\ UNCHANGED <<flow, clock, states, rt_state, phase, value, last_update,
                   has_reset_timer, timers, subscribed>>

\* A source entity e changes to state s (NONE: it is removed).  The host
\* updates its state machine and calls handle_state_change; a write of the
\* rate reaches the subscribed accumulators in the same turn of the loop.
SourceStateChange(e, s) ==
    LET r == HandleStateChange(s, [states EXCEPT ![e] = s], rt_state)
        escaped == IF r.raised = "none" THEN {} ELSE {<<RATE, r.raised>>}
    IN  /\ rt_subscribed
        /\ states' = [states EXCEPT ![e] = s]
        /\ rt_state' = r.state
        /\ IF r.wrote
           THEN Deliver(RateState(r.state), escaped, {RATE})
           ELSE /\ raised' = escaped
                /\ written' = {}
                /\ UNCHANGED <<value, last_update>>
        /\ UNCHANGED <<flow, clock, rt_subscribed, phase, has_reset_timer,
                       timers, subscribed>>

\* The host reports a state of the rate entity that the rate calculator did
\* not write: removed, unknown, unavailable or not a number.
RateEntityEvent(s) ==
    /\ {i \in Intervals : subscribed[i]} # {}
    /\ Deliver(s, {}, {})
    /\ UNCHANGED <<flow, clock, states, rt_subscribed, rt_state, phase,
                   has_reset_timer, timers, subscribed>>

\* UtilityMeterSensor.async_added_to_hass of instance i, the restore store
\* answering last_state.
AddedToHass(i, last_state) ==
    LET restorable == last_state # NONE
                      /\ last_state \notin {UNKNOWN, UNAVAILABLE}
        sched == ScheduleNextReset(i, timers[i], has_reset_timer[i],
                                   "returns", clock)
    IN  /\ phase[i] = "constructed"
        /\ written' = {}
        /\ IF restorable /\ ~Parsed(last_state).ok
           THEN /\ raised' = {<<i, InvalidOperationEscapesAs>>}
                /\ phase' = [phase EXCEPT ![i] = "failed"]
                /\ UNCHANGED <<value, has_reset_timer, timers, subscribed>>
           ELSE /\ raised' = {}
                /\ phase' = [phase EXCEPT ![i] = "added"]
                /\ value' = [value EXCEPT ![i] =
                       IF restorable THEN DecimalCents(Parsed(last_state))
                       ELSE @]
                /\ timers' = [timers EXCEPT ![i] = sched.timers]
                /\ has_reset_timer' = [has_reset_timer EXCEPT ![i] = sched.has]
                /\ subscribed' = [subscribed EXCEPT ![i] = TRUE]
        /\ UNCHANGED <<flow, clock, states, rt_subscribed, rt_state,
                       last_update>>

\* Mutant of ResetMeter: the total is one class attribute shared by the
\* instances, so the reset of one instance zeroes all three.
ResetMeterSharedTotal(i, k, outcome) ==
    LET rest == [n \in 1..(Len(timers[i]) - 1) |->
                    IF n < k THEN timers[i][n] ELSE timers[i][n + 1]]
        sched == ScheduleNextReset(i, rest, has_reset_timer[i], outcome, clock)
    IN  /\ k \in 1..Len(timers[i])
        /\ timers[i][k] <= clock
        /\ value' = [j \in Intervals |-> 0]
        /\ last_update' = [last_update EXCEPT ![i] = clock]
        /\ written' = {i}
        /\ timers' = [timers EXCEPT ![i] = sched.timers]
        /\ has_reset_timer' = [has_reset_timer EXCEPT ![i] = sched.has]
        /\ raised' = IF sched.raised = "none" THEN {} ELSE {<<i, sched.raised>>}
        /\ UNCHANGED <<flow, clock, states, rt_subscribed, rt_state, phase,
                       subscribed>>

\* The k-th pending timer of instance i is due: the host drops it and runs
\* _reset_meter, whose schedule_next_reset meets outcome.
ResetMeter(i, k, outcome) ==
    LET rest == [n \in 1..(Len(timers[i]) - 1) |->
                    IF n < k THEN timers[i][n] ELSE timers[i][n + 1]]
        sched == ScheduleNextReset(i, rest, has_reset_timer[i], outcome, clock)
    IN  /\ k \in 1..Len(timers[i])
        /\ timers[i][k] <= clock
        /\ value' = [value EXCEPT ![i] = 0]
        /\ last_update' = [last_update EXCEPT ![i] = clock]
        /\ written' = {i}
        /\ timers' = [timers EXCEPT ![i] = sched.timers]
        /\ has_reset_timer' = [has_reset_timer EXCEPT ![i] = sched.has]
        /\ raised' = IF sched.raised = "none" THEN {} ELSE {<<i, sched.raised>>}
        /\ UNCHANGED <<flow, clock, states, rt_subscribed, rt_state, phase,
                       subscribed>>

\* Mutant of AsyncReset: the manual reset also stamps last_update with the
\* current time, as _reset_meter does.
AsyncResetStamping(i) ==
    /\ phase[i] = "added"
    /\ value' = [value EXCEPT ![i] = 0]
    /\ last_update' = [last_update EXCEPT ![i] = clock]
    /\ written' = {i}
    /\ raised' = {}
    /\ UNCHANGED <<flow, clock, states, rt_subscribed, rt_state, phase,
                   has_reset_timer, timers, subscribed>>

\* The reset service: async_reset of instance i.
AsyncReset(i) ==
    /\ phase[i] = "added"
    /\ value' = [value EXCEPT ![i] = 0]
    /\ written' = {i}
    /\ raised' = {}
    /\ UNCHANGED <<flow, clock, states, rt_subscribed, rt_state, phase,
                   last_update, has_reset_timer, timers, subscribed>>

\* schedule_next_reset called on an added instance from outside the timer.
CallScheduleNextReset(i, outcome) ==
    LET sched == ScheduleNextReset(i, timers[i], has_reset_timer[i],
                                   outcome, clock)
    IN  /\ phase[i] = "added"
        /\ Len(timers[i]) < MaxTimers
        /\ timers' = [timers EXCEPT ![i] = sched.timers]
        /\ has_reset_timer' = [has_reset_timer EXCEPT ![i] = sched.has]
        /\ raised' = IF sched.raised = "none" THEN {} ELSE {<<i, sched.raised>>}
        /\ written' = {}
        /\ UNCHANGED <<flow, clock, states, rt_subscribed, rt_state, phase,
                       value, last_update, subscribed>>

\* Time passes.  The host fires a timer when it is due and adds the
\* entities of async_setup_entry at once, so the clock does not move on a
\* whole tick while a due timer or an entity to add waits.
Due(i) == \E k \in 1..Len(timers[i]) : timers[i][k] <= clock
TickFrom(starts) ==
    /\ \A i \in Intervals : ~Due(i) /\ phase[i] # "constructed"
    /\ rt_subscribed
    /\ \E s \in starts : s <= clock /\ clock < s + MaxTicks
    /\ clock' = clock + 1
    /\ raised' = {}
    /\ written' = {}
    /\ UNCHANGED <<flow, states, rt_subscribed, rt_state, phase, value,
                   last_update, has_reset_timer, timers, subscribed>>

Tick == TickFrom(StartTimes)

Wired ==
    \/ RtAddedToHass
    \/ \E e \in Sources : \E s \in SourceStates(e) : SourceStateChange(e, s)
    \/ \E s \in HostRateStates : RateEntityEvent(s)
    \/ \E i \in Intervals : \E s \in RestoreStates : AddedToHass(i, s)
    \/ \E i \in Intervals : \E k \in 1..MaxTimers :
           \E o \in RemoveJobOutcomes : ResetMeter(i, k, o)
    \/ \E i \in Intervals : AsyncReset(i)
    \/ Tick

Next == Wired

Spec == Init /\ [][Next]_vars

\* The timer operations alone, with schedule_next_reset also called from
\* outside the timer callback.
NextEntry ==
    \/ RtAddedToHass
    \/ \E i \in Intervals : \E s \in RestoreStates : AddedToHass(i, s)
    \/ \E i \in Intervals : \E k \in 1..MaxTimers :
           \E o \in RemoveJobOutcomes : ResetMeter(i, k, o)
    \/ \E i \in Intervals : \E o \in RemoveJobOutcomes :
           CallScheduleNextReset(i, o)
    \/ Tick

SpecEntry == Init /\ [][NextEntry]_vars

\* The rate calculator alone, its sources reporting the wider readings of
\* RateSourceStates; no accumulator is added.
NextRate ==
    \/ RtAddedToHass
    \/ \E e \in Sources : \E s \in RateSourceStates(e) :
           SourceStateChange(e, s)

SpecRate == Init /\ [][NextRate]_vars

\* The three totals started together from 0 with nothing to restore, fed
\* non-negative rates, and reset by their timers only.
TickNested == TickFrom(NestedStartTimes)

NextNested ==
    \/ RtAddedToHass
    \/ \E e \in Sources : \E s \in NonNegSourceStates(e) :
           SourceStateChange(e, s)
    \/ \E s \in HostRateStates : RateEntityEvent(s)
    \/ \E i \in Intervals : AddedToHass(i, NONE)
    \/ \E i \in Intervals : \E k \in 1..MaxTimers :
           \E o \in RemoveJobOutcomes : ResetMeter(i, k, o)
    \/ TickNested

SpecNested == InitAt(NestedStartTimes) /\ [][NextNested]_vars

\* The configuration flow and the setup of the entry it creates.  Before
\* the setup no entity exists.
InitConfig ==
    /\ flow = FlowStart
    /\ clock \in StartTimes
    /\ states = [e \in Sources |-> NONE]
    /\ rt_subscribed = FALSE
    /\ rt_state = 0
    /\ phase = [i \in Intervals |-> "none"]
    /\ value = [i \in Intervals |-> 0]
    /\ last_update = [i \in Intervals |-> clock]
    /\ has_reset_timer = [i \in Intervals |-> FALSE]
    /\ timers = [i \in Intervals |-> <<>>]
    /\ subscribed = [i \in Intervals |-> FALSE]
    /\ raised = {}
    /\ written = {}

\* The user submits the form with user_input; the form can be submitted
\* again until an entry is created.
StepUser(user_input) ==
    /\ flow.result.type # "create_entry"
    /\ flow' = [user_input |-> user_input,
                result |-> AsyncStepUser(user_input),
                core |-> "none"]
    /\ UNCHANGED <<clock, states, rt_subscribed, rt_state, phase, value,
                   last_update, has_reset_timer, timers, subscribed, raised,
                   written>>

\* The host sets up the created entry: async_setup_entry constructs the
\* rate calculator and the three accumulators, or fails in the first
\* constructor.
SetupEntry ==
    LET outcome == SetupEntryOutcome(flow.result.data)
    IN  /\ flow.result.type = "create_entry"
        /\ flow.core = "none"
        /\ flow' = [flow EXCEPT !.core = outcome]
        /\ phase' = IF outcome = "constructed"
                     THEN [i \in Intervals |-> "constructed"]
                     ELSE phase
        /\ UNCHANGED <<clock, states, rt_subscribed, rt_state, value,
                       last_update, has_reset_timer, timers, subscribed,
                       raised, written>>

NextConfig ==
    \/ \E u \in UserInputs : StepUser(u)
    \/ SetupEntry

SpecConfig == InitConfig /\ [][NextConfig]_vars

\* The reset timers alone, set up at each of CalendarTimes with nothing to
\* restore: startup arms them, the clock runs over the boundary, and each
\* firing arms the next.
TickCalendar == TickFrom(CalendarTimes)

NextCalendar ==
    \/ RtAddedToHass
    \/ \E i \in Intervals : AddedToHass(i, NONE)
    \/ \E i \in Intervals : \E k \in 1..MaxTimers :
           \E o \in RemoveJobOutcomes : ResetMeter(i, k, o)
    \/ TickCalendar

SpecCalendar == InitAt(CalendarTimes) /\ [][NextCalendar]_vars

\* ------------------------------------------------------------------ claims

\* inc is the integer nearest to n / d (d > 0), the even one on a tie.
IsNearestEven(inc, n, d) ==
    LET e == IF d * inc >= n THEN d * inc - n ELSE n - d * inc
    IN  /\ 2 * e <= d
        /\ 2 * e = d => inc % 2 = 0

\* The rate calculator wrote its state in this step, so the bus delivered
\* the new rate to the subscribed accumulators.
RatePublished == RATE \in written'

\* C1: when a valid numeric rate r arrives at time t at a subscribed
\* accumulator, its total grows by r * (t - last_update_timestamp) / 3600 s
\* rounded to two places (ties to even), r being the NEW rate, and its
\* last_update_timestamp becomes t.
C1_NewRateTimesElapsed ==
    [][\A i \in Intervals :
          (RatePublished /\ subscribed[i]) =>
              /\ IsNearestEven(value'[i] - value[i],
                               rt_state' * (clock - last_update[i]),
                               TicksPerHour)
              /\ last_update'[i] = clock]_vars

\* C1 witness: a rate of -0.05 per hour arrived half an hour after the last
\* update of a total of 0: -2.5 cents rounds to the even -2 cents.
C1_Witness ==
    /\ RATE \in written
    /\ "yearly" \in written
    /\ rt_state = -5
    /\ value["yearly"] = -2
    /\ last_update["yearly"] = clock

\* C2: over a window in which the published rate was held constant at r
\* (from the accumulator's last update to the arrival of the next rate), the
\* total grows by r * window rounded to two places, r being the rate that
\* was in effect during the window.
C2_PreviousRateOverWindow ==
    [][\A i \in Intervals :
          (RatePublished /\ subscribed[i]) =>
              IsNearestEven(value'[i] - value[i],
                            rt_state * (clock - last_update[i]),
                            TicksPerHour)]_vars

\* C3: startup with a parsable persisted value sets the total to that value;
\* with an absent, unknown, unavailable or unparsable one it leaves the
\* total 0.00, and no error escapes startup.
C3_RestoreOrZero ==
    [][\A i \in Intervals : \A s \in RestoreStates :
          AddedToHass(i, s) =>
              /\ raised' = {}
              /\ value'[i] = IF s = <<"1", "2", ".", "3", "4">>
                             THEN 1234 ELSE 0]_vars

\* C4: whatever the persisted value, once startup has run exactly one reset
\* timer is pending for the instance, at its next boundary, and the
\* instance is subscribed to rate updates.
C4_StartupArmsReset ==
    [][\A i \in Intervals : \A s \in RestoreStates :
          AddedToHass(i, s) =>
              /\ timers'[i] = <<CalculateNextResetTime(i, clock)>>
              /\ subscribed'[i]]_vars

\* C5: at most one reset timer of an instance is pending at any moment, and
\* a call of schedule_next_reset leaves exactly the newly armed timer
\* pending (the timer armed before is cancelled).
C5_OnePendingTimer ==
    [][\A i \in Intervals :
          /\ Len(timers'[i]) <= 1
          /\ \A o \in RemoveJobOutcomes :
                 CallScheduleNextReset(i, o) =>
                     timers'[i] = <<CalculateNextResetTime(i, clock)>>]_vars

\* The post-state of a reset of instance i: total 0, last update now, the
\* value emitted, one timer armed for the following boundary.
ResetPostState(i) ==
    /\ value'[i] = 0
    /\ last_update'[i] = clock
    /\ i \in written'
    /\ timers'[i] = <<CalculateNextResetTime(i, clock)>>

\* C6: a reset at a boundary (_reset_meter) zeroes the total, sets
\* last_update_timestamp to now, emits the value and arms one timer for the
\* following boundary; the manual reset (async_reset) establishes the same
\* post-state.
C6_ResetPostState ==
    [][\A i \in Intervals :
          /\ \A k \in 1..MaxTimers : \A o \in RemoveJobOutcomes :
                 ResetMeter(i, k, o) => ResetPostState(i)
          /\ AsyncReset(i) => ResetPostState(i)]_vars

\* A source state that makes the sample invalid.
InvalidSource(s) ==
    \/ s \in {NONE, EMPTY, UNKNOWN, UNAVAILABLE}
    \/ ~Parsed(s).ok

\* C7: a notification whose new state is missing, or that finds the price or
\* the power absent, empty, unknown, unavailable or non-numeric, raises
\* nothing, leaves the published rate unchanged and writes nothing.
C7_InvalidInputSwallowed ==
    [][\A e \in Sources : \A s \in SourceStates(e) :
          (SourceStateChange(e, s)
             /\ (InvalidSource(states'[PRICE]) \/ InvalidSource(states'[POWER])))
          => /\ raised' = {}
             /\ rt_state' = rt_state
             /\ written' = {}]_vars

\* C8: a rate notification with a missing, unknown, unavailable or
\* non-numeric state lets no exception escape the accumulator's callback
\* and leaves value and last_update_timestamp unchanged.
C8_InvalidUpdateSwallowed ==
    [][\A s \in HostRateStates :
          RateEntityEvent(s) =>
              /\ raised' = {}
              /\ value' = value
              /\ last_update' = last_update]_vars

\* C9 as stated: the total of every accumulator is never negative.
C9_ValueNonNegative == \A i \in Intervals : value[i] >= 0

\* C9 as amended: a total that is not negative stays so across every step
\* (restore, reset, rate update) except a rate update that carries a
\* negative rate.
C9_NonNegativeUnlessNegativeRate ==
    [][\A i \in Intervals :
          (value[i] >= 0 /\ ~(RatePublished /\ rt_state' < 0)) =>
              value'[i] >= 0]_vars

\* C9 witness: a rate of 2.00 per hour has been charged over half an hour
\* on a total of 0, which is now 1.00.
C9_Witness ==
    /\ RATE \in written
    /\ "daily" \in written
    /\ rt_state > 0
    /\ value["daily"] = 100
    /\ last_update["daily"] = clock

\* C10: handle_state_change writes exactly when the computed rate differs
\* from the published one (the rate changes in a step if and only if it is
\* written in that step), and a notification that repeats valid inputs
\* already processed writes nothing.
C10_ChangeDetectionGate ==
    [][/\ RatePublished <=> rt_state' # rt_state
       /\ (/\ states' = states
           /\ ~InvalidSource(states[PRICE])
           /\ ~InvalidSource(states[POWER])) => ~RatePublished]_vars

\* C10 witness: the first notification with valid inputs has published a
\* rate other than the initial 0.
C10_Witness ==
    /\ RATE \in written
    /\ rt_state # 0
    /\ ~InvalidSource(states[PRICE])
    /\ ~InvalidSource(states[POWER])

\* C11: whenever the rate calculator listens and both sources hold a valid
\* number, its state is price * power / 1000 rounded to the nearest cent,
\* a product exactly halfway between two cents going to the even one: the
\* distance from the exact product is at most half a cent.
C11_RateIsRounded ==
    LET price == states[PRICE]
        power == states[POWER]
    IN  (/\ rt_subscribed
         /\ price # NONE /\ power # NONE
         /\ Parsed(price).ok /\ Parsed(power).ok)
        => IsNearestEven(rt_state,
                         Parsed(price).num * Parsed(power).num * 100,
                         Pow10(Parsed(price).exp + Parsed(power).exp) * 1000)

\* A price of 0.125 at 1000 W was just published as 0.12 per hour: the
\* product 0.125 is halfway between 0.12 and 0.13.
C11_Witness ==
    /\ states[PRICE] = <<"0", ".", "1", "2", "5">>
    /\ states[POWER] = <<"1", "0", "0", "0">>
    /\ rt_state = 12
    /\ RATE \in written

\* A reset boundary of interval i: a midnight, for monthly that of a first
\* of the month, for yearly that of a first of January.
IsBoundary(i, t) ==
    /\ TickOf(t) = 0
    /\ i = "monthly" => DayOf(t) = 1
    /\ i = "yearly" => DayOf(t) = 1 /\ MonthOf(t) = 1

\* t is the earliest boundary of interval i strictly later than now: no
\* midnight after now and before t is a boundary.
IsNextBoundary(i, now, t) ==
    /\ t > now
    /\ IsBoundary(i, t)
    /\ \A d \in 1..366 :
           LET u == Midnight(now) + d * TicksPerDay
           IN  u < t => ~IsBoundary(i, u)

\* C12: every timer an instance arms, at startup or when its reset fires,
\* is set to the earliest boundary of its interval strictly later than the
\* current time: the next midnight, the midnight of the first of the next
\* month, the midnight of the next first of January.
C12_NextResetIsNextBoundary ==
    [][\A i \in Intervals :
          (timers'[i] # timers[i] /\ timers'[i] # <<>>)
          => IsNextBoundary(i, clock, timers'[i][Len(timers'[i])])]_vars

\* The yearly reset fired exactly on the first of January and armed the
\* first of January of the year after.
C12_Witness ==
    /\ clock = DateTime(EpochYear + 1, 1, 1, 0)
    /\ written = {"yearly"}
    /\ timers["yearly"] = <<DateTime(EpochYear + 2, 1, 1, 0)>>

\* C13: every firing of a reset of instance i leaves exactly one timer
\* pending for i, set to the next boundary of the interval after the one
\* that fired and later than every time armed before, so that the resets
\* recur boundary by boundary.
C13_ResetRearmsNextBoundary ==
    [][\A i \in Intervals :
          (/\ written' = {i}
           /\ \E k \in 1..Len(timers[i]) : \E o \in RemoveJobOutcomes :
                  ResetMeter(i, k, o))
          => /\ Len(timers'[i]) = 1
             /\ IsNextBoundary(i, clock, timers'[i][1])
             /\ \A k \in 1..Len(timers[i]) : timers[i][k] < timers'[i][1]]_vars

\* C14: while the clock does not go backward, no step moves the
\* last_update of an instance backward, and a step that changes it sets it
\* to the current time.
C14_LastUpdateMonotonic ==
    [][clock' >= clock
       => \A i \in Intervals :
             /\ last_update'[i] >= last_update[i]
             /\ last_update'[i] # last_update[i]
                => last_update'[i] = clock']_vars

\* A rate published after the clock has advanced was added by the daily
\* instance, which stamped the update with the current time.
C14_Witness ==
    /\ clock \notin StartTimes
    /\ RATE \in written
    /\ "daily" \in written
    /\ last_update["daily"] = clock

\* Exactly one of the power sensor and the energy sensor is supplied.
ExactlyOneSupplied(u) == Truthy(u.power_sensor) # Truthy(u.energy_sensor)

\* Every entity id supplied in u passes cv.entity_id.
SuppliedIdsValid(u) ==
    /\ ValidEntityId(u.electricity_price_sensor)
    /\ Truthy(u.power_sensor) => ValidEntityId(u.power_sensor)
    /\ Truthy(u.energy_sensor) => ValidEntityId(u.energy_sensor)

\* C15: a submitted form never ends in an escaping exception; it creates an
\* entry only when exactly one of the two sensors is supplied, and always
\* then when the supplied ids are valid; with neither or both it shows the
\* form again with an error; and the setup of a created entry constructs
\* the core without error.
C15_ConfigValidation ==
    flow.result.type # "none"
    => /\ flow.result.type # "raised"
       /\ flow.result.type = "create_entry" => ExactlyOneSupplied(flow.user_input)
       /\ (ExactlyOneSupplied(flow.user_input) /\ SuppliedIdsValid(flow.user_input))
          => flow.result.type = "create_entry"
       /\ ~ExactlyOneSupplied(flow.user_input)
          => flow.result.type = "form" /\ flow.result.errors # "none"
       /\ flow.core \in {"none", "constructed"}

\* The rate entity's state reached the accumulators in this step: the rate
\* calculator published, or the host reported the entity itself.
RateUpdate == RatePublished \/ \E s \in HostRateStates : RateEntityEvent(s)

\* C16: the firing of a reset of instance i leaves the value, the
\* last_update and the pending timers of the two other instances and the
\* rate as they were; a rate update leaves every pending timer (and which
\* instances exist and listen) as it was, changing value and last_update
\* only: no step that changes a timer is a rate update.
C16_Frame ==
    [][/\ \A i \in Intervals :
             (/\ written' = {i}
              /\ \E k \in 1..Len(timers[i]) : \E o \in RemoveJobOutcomes :
                     ResetMeter(i, k, o))
             => /\ \A j \in Intervals \ {i} :
                       /\ value'[j] = value[j]
                       /\ last_update'[j] = last_update[j]
                       /\ timers'[j] = timers[j]
                /\ rt_state' = rt_state
       /\ (\/ timers' # timers
           \/ has_reset_timer' # has_reset_timer
           \/ phase' # phase
           \/ subscribed' # subscribed
           \/ clock' # clock)
          => ~RateUpdate]_vars

\* The daily reset has just fired after the clock advanced, and the
\* monthly instance still holds its total and its timer for a later day.
C16_Witness ==
    /\ clock \notin NestedStartTimes
    /\ written = {"daily"}
    /\ value["daily"] = 0
    /\ last_update["daily"] = clock
    /\ value["monthly"] # 0
    /\ timers["monthly"] # <<>>
    /\ ~Due("monthly")

JustManuallyReset(i) ==
    /\ written = {i}
    /\ value[i] = 0
    /\ last_update[i] < clock

\* C18: async_reset of instance i sets its total to 0 and writes it, and
\* leaves every last_update and every pending timer as it was; a rate
\* published next adds to the zeroed total the rate times the hours since
\* the last update before the reset, rounded to the nearest cent.
C18_ManualReset ==
    [][\A i \in Intervals :
          /\ (written' = {i} /\ AsyncReset(i))
             => /\ value'[i] = 0
                /\ last_update' = last_update
                /\ timers' = timers
                /\ has_reset_timer' = has_reset_timer
          /\ (JustManuallyReset(i) /\ RatePublished)
             => /\ IsNearestEven(value'[i],
                                 rt_state' * (clock - last_update[i]),
                                 TicksPerHour)
                /\ last_update'[i] = clock]_vars

\* The daily total was reset by hand half an hour or more after its last
\* update, while a rate other than 0 is in effect and its timer is pending.
C18_Witness ==
    /\ JustManuallyReset("daily")
    /\ rt_state # 0
    /\ timers["daily"] # <<>>

====
